---- MODULE Spec2Model ----
(***************************************************************************)
(* Contact form handler (src/contact-form.js): submit-time and blur-time   *)
(* validation, inline and summary error display, the submit button's       *)
(* Idle/Loading state and the deferred submission and auto-hide callbacks. *)
(*                                                                         *)
(* Strings typed by the user are sequences of one-character strings, so    *)
(* that trimming, length and the email pattern are computed and not        *)
(* assumed.  Messages and class names are TLA+ strings.                    *)
(*                                                                         *)
(* The icon of the submit button is rendered by lucide.createIcons(),      *)
(* which replaces every <i data-lucide="..."> element of the page with an  *)
(* <svg> element.  showLoading and resetButton look the icon up with       *)
(* querySelector('i'): once the <i> has been replaced the lookup gives     *)
(* null and the first use of it throws a TypeError, which ends the handler *)
(* or callback that made the call at that line.                            *)
(***************************************************************************)
EXTENDS Integers, Sequences, FiniteSets, TLC

VARIABLES
    value,        \* value[f]: the raw text held by field f
    fieldClass,   \* fieldClass[f]: the styling classes on field f
    errHidden,    \* errHidden[f]: the inline error-message div of f has class hidden
    errText,      \* errText[f]: textContent of the inline error-message div of f
    summaryClass, \* classes of #error-message (the summary container)
    errorList,    \* the <li> texts of #error-list, in order
    successClass, \* classes of #success-message
    formClass,    \* classes of #contact-form
    button,       \* #submit-btn: disabled, label (#btn-text), and its icon element:
                  \* tag (i or svg), data-lucide attribute, animate-spin class
    timers,       \* pending setTimeout callbacks, in scheduling order
    consoleLog,   \* the records written by console.log, in order
    events,       \* number of user events (submit, blur, input) handled so far
    arg,          \* validation on its own: the record handed to validateForm, or
                  \* the field, raw text and other fields of a single-field run
    ret           \* validation on its own: what validateForm (and, in a
                  \* single-field run, validateSingleField) computed for arg

vars == <<value, fieldClass, errHidden, errText, summaryClass, errorList,
          successClass, formClass, button, timers, consoleLog, events, arg, ret>>

dom == <<value, fieldClass, errHidden, errText, summaryClass, errorList,
         successClass, formClass, button, timers, consoleLog>>

-----------------------------------------------------------------------------
(* Bounds *)

\* user events (submit, blur, input) handled in one behaviour
MaxEvents == 6

\* length of the raw texts enumerated for a single field
MaxLen == 5

-----------------------------------------------------------------------------
(* The four fields, in declaration order *)

FieldOrder == <<"name", "email", "subject", "message">>

Fields == {FieldOrder[i] : i \in 1..Len(FieldOrder)}

FieldIndex(f) == CHOOSE i \in 1..Len(FieldOrder) : FieldOrder[i] = f

-----------------------------------------------------------------------------
(* Strings *)

\* The characters String.prototype.trim strips and the pattern's \s matches:
\* ECMAScript WhiteSpace and LineTerminator.  A character that has no escape
\* in a TLA+ string is written as its code point.
WhiteSpace ==
    {" ", "\t", "\n", "\r", "\f", "U+000B", "U+00A0", "U+1680",
     "U+2000", "U+2001", "U+2002", "U+2003", "U+2004", "U+2005", "U+2006",
     "U+2007", "U+2008", "U+2009", "U+200A", "U+2028", "U+2029", "U+202F",
     "U+205F", "U+3000", "U+FEFF"}

IsSpace(c) == c \in WhiteSpace

RECURSIVE TrimStart(_)
TrimStart(s) ==
    IF s # <<>> /\ IsSpace(Head(s)) THEN TrimStart(Tail(s)) ELSE s

RECURSIVE TrimEnd(_)
TrimEnd(s) ==
    IF s # <<>> /\ IsSpace(s[Len(s)]) THEN TrimEnd(SubSeq(s, 1, Len(s) - 1)) ELSE s

\* a handler that forgets to trim
trim_Missing(s) == s

\* String.prototype.trim
trim(s) == TrimEnd(TrimStart(s))

RECURSIVE Rep(_, _)
Rep(c, n) == IF n = 0 THEN <<>> ELSE <<c>> \o Rep(c, n - 1)

\* one or more characters, none of them whitespace or '@': [^\s@]+
NoSpaceAt(s) == s # <<>> /\ \A k \in 1..Len(s) : ~IsSpace(s[k]) /\ s[k] # "@"

\* the pattern without the dot: /^[^\s@]+@[^\s@]+$/
isValidEmail_NoDot(email) ==
    \E i \in 1..Len(email) :
        /\ email[i] = "@"
        /\ NoSpaceAt(SubSeq(email, 1, i - 1))
        /\ NoSpaceAt(SubSeq(email, i + 1, Len(email)))

\* /^[^\s@]+@[^\s@]+\.[^\s@]+$/.test(email)
isValidEmail(email) ==
    \E i \in 1..Len(email) : \E j \in 1..Len(email) :
        /\ i < j
        /\ email[i] = "@"
        /\ email[j] = "."
        /\ NoSpaceAt(SubSeq(email, 1, i - 1))
        /\ NoSpaceAt(SubSeq(email, i + 1, j - 1))
        /\ NoSpaceAt(SubSeq(email, j + 1, Len(email)))

-----------------------------------------------------------------------------
(* Validation *)

Err(f, m) == [field |-> f, message |-> m]

\* lines 88-92
nameErrors(data) ==
    IF data["name"] = <<>>
      THEN <<Err("name", "Name is required")>>
      ELSE IF Len(data["name"]) < 2
             THEN <<Err("name", "Name must be at least 2 characters")>>
             ELSE <<>>

\* the email block with the pattern check left out
emailErrors_NoPattern(data) ==
    IF data["email"] = <<>>
      THEN <<Err("email", "Email is required")>>
      ELSE <<>>

\* lines 94-98
emailErrors(data) ==
    IF data["email"] = <<>>
      THEN <<Err("email", "Email is required")>>
      ELSE IF ~isValidEmail(data["email"])
             THEN <<Err("email", "Please enter a valid email address")>>
             ELSE <<>>

\* the subject block with <= for <
subjectErrors_InclusiveMin(data) ==
    IF data["subject"] = <<>>
      THEN <<Err("subject", "Subject is required")>>
      ELSE IF Len(data["subject"]) <= 3
             THEN <<Err("subject", "Subject must be at least 3 characters")>>
             ELSE <<>>

\* lines 100-104
subjectErrors(data) ==
    IF data["subject"] = <<>>
      THEN <<Err("subject", "Subject is required")>>
      ELSE IF Len(data["subject"]) < 3
             THEN <<Err("subject", "Subject must be at least 3 characters")>>
             ELSE <<>>

\* the message block with the length check left out
messageErrors_NoMinLength(data) ==
    IF data["message"] = <<>>
      THEN <<Err("message", "Message is required")>>
      ELSE <<>>

\* lines 106-110
messageErrors(data) ==
    IF data["message"] = <<>>
      THEN <<Err("message", "Message is required")>>
      ELSE IF Len(data["message"]) < 10
             THEN <<Err("message", "Message must be at least 10 characters")>>
             ELSE <<>>

\* validateForm with the email block written before the name block
validateForm_EmailFirst(data) ==
    emailErrors(data) \o nameErrors(data) \o subjectErrors(data) \o messageErrors(data)

validateForm(data) ==
    nameErrors(data) \o emailErrors(data) \o subjectErrors(data) \o messageErrors(data)

\* no error: the null that validateSingleField starts from
NoError == ""

\* the switch with the subject's length check off by one
fieldError_SubjectMin2(fieldName, v) ==
    CASE fieldName = "name" ->
           IF v = <<>> THEN "Name is required"
           ELSE IF Len(v) < 2 THEN "Name must be at least 2 characters"
           ELSE NoError
      [] fieldName = "email" ->
           IF v = <<>> THEN "Email is required"
           ELSE IF ~isValidEmail(v) THEN "Please enter a valid email address"
           ELSE NoError
      [] fieldName = "subject" ->
           IF v = <<>> THEN "Subject is required"
           ELSE IF Len(v) < 2 THEN "Subject must be at least 3 characters"
           ELSE NoError
      [] fieldName = "message" ->
           IF v = <<>> THEN "Message is required"
           ELSE IF Len(v) < 10 THEN "Message must be at least 10 characters"
           ELSE NoError
      [] OTHER -> NoError

\* the switch of validateSingleField: the message for a trimmed value, or null
fieldError(fieldName, v) ==
    CASE fieldName = "name" ->
           IF v = <<>> THEN "Name is required"
           ELSE IF Len(v) < 2 THEN "Name must be at least 2 characters"
           ELSE NoError
      [] fieldName = "email" ->
           IF v = <<>> THEN "Email is required"
           ELSE IF ~isValidEmail(v) THEN "Please enter a valid email address"
           ELSE NoError
      [] fieldName = "subject" ->
           IF v = <<>> THEN "Subject is required"
           ELSE IF Len(v) < 3 THEN "Subject must be at least 3 characters"
           ELSE NoError
      [] fieldName = "message" ->
           IF v = <<>> THEN "Message is required"
           ELSE IF Len(v) < 10 THEN "Message must be at least 10 characters"
           ELSE NoError
      [] OTHER -> NoError

\* ContactFormConfig.validationRules; minLength 0 and pattern FALSE mean absent
validationRules ==
    [name    |-> [minLength |-> 2,  required |-> TRUE, pattern |-> FALSE],
     email   |-> [minLength |-> 0,  required |-> TRUE, pattern |-> TRUE],
     subject |-> [minLength |-> 3,  required |-> TRUE, pattern |-> FALSE],
     message |-> [minLength |-> 10, required |-> TRUE, pattern |-> FALSE]]

-----------------------------------------------------------------------------
(* Presentation *)

Invalid == {"border-red-500", "bg-red-50"}

Normal == {"border-gray-300"}

\* an icon element without a data-lucide attribute
NoIcon == ""

\* lucide.createIcons() on the button b: an <i> that names an icon is replaced
\* with an <svg> that takes over its attributes and classes
createIcons(b) ==
    IF b.tag = "i" /\ b.icon # NoIcon THEN [b EXCEPT !.tag = "svg"] ELSE b

\* showLoading on the button b: the button it leaves, and whether it threw.
\* querySelector('i') is null when the icon is no longer an <i>; the button
\* is disabled and relabelled before icon.setAttribute throws (line 256).
showLoading(b) ==
    LET labelled == [b EXCEPT !.disabled = TRUE, !.text = "Sending..."]
    IN  IF b.tag # "i"
          THEN [button |-> labelled, threw |-> TRUE]
          ELSE [button |-> createIcons([labelled EXCEPT !.icon = "loader-2",
                                                        !.spin = TRUE]),
                threw  |-> FALSE]

\* resetButton on the button b: the button it leaves, and whether it threw
\* (icon.setAttribute, line 323, after the button is enabled and relabelled)
resetButton(b) ==
    LET labelled == [b EXCEPT !.disabled = FALSE, !.text = "Launch Message"]
    IN  IF b.tag # "i"
          THEN [button |-> labelled, threw |-> TRUE]
          ELSE [button |-> createIcons([labelled EXCEPT !.icon = "send",
                                                        !.spin = FALSE]),
                threw  |-> FALSE]

\* submitForm, lines 297-299: the classes of #success-message once shown
showSuccess(cls) == (cls \ {"hidden"}) \cup {"slide-in"}

\* submitForm, line 309: the classes of #success-message once hidden again
hideSuccess(cls) == cls \cup {"hidden"}

\* the data.get(...).trim() record built by the submit handler
FormRecord == [f \in Fields |-> trim(value[f])]

\* the field a form reset restores
EmptyForm == [f \in Fields |-> <<>>]

\* the fields named by a list of errors
ErrFields(errors) == {errors[i].field : i \in 1..Len(errors)}

\* the last error of the list for field f (later writes win in the forEach)
LastFor(errors, f) ==
    LET i == CHOOSE k \in 1..Len(errors) :
                 /\ errors[k].field = f
                 /\ \A m \in (k + 1)..Len(errors) : errors[m].field # f
    IN errors[i].message

-----------------------------------------------------------------------------
(* Timers: the callbacks of setTimeout, with the delay each was given *)

Delay(kind) ==
    CASE kind = "shake" -> 500
      [] kind = "submit" -> 1500
      [] kind = "hide" -> 5000

\* A callback cannot run before one that was scheduled earlier with a delay
\* no longer than its own.
Due(i) == \A j \in 1..(i - 1) : Delay(timers[j].kind) > Delay(timers[i].kind)

Without(s, i) == SubSeq(s, 1, i - 1) \o SubSeq(s, i + 1, Len(s))

Pending(kind) == {i \in 1..Len(timers) : timers[i].kind = kind}

-----------------------------------------------------------------------------
(* The page as loaded: empty fields, nothing marked, messages hidden,      *)
(* button idle (the markup named by the DOM contract).  The contract says  *)
(* the button holds an icon element and not whether that <i> names its     *)
(* icon in the markup, so both pages are taken: on the one createIcons     *)
(* replaces the <i> when the page loads, on the other when showLoading has *)
(* named the loader icon.                                                  *)

ButtonMarkup ==
    {[disabled |-> FALSE, text |-> "Launch Message",
      tag |-> "i", icon |-> ic, spin |-> FALSE] : ic \in {"send", NoIcon}}

\* everything but the texts of the fields, once the DOMContentLoaded handler
\* has run (its createIcons included)
PageDisplay ==
    /\ fieldClass = [f \in Fields |-> Normal]
    /\ errHidden = [f \in Fields |-> TRUE]
    /\ errText = [f \in Fields |-> ""]
    /\ summaryClass = {"hidden"}
    /\ errorList = <<>>
    /\ successClass = {"hidden"}
    /\ formClass = {}
    /\ button \in {createIcons(b) : b \in ButtonMarkup}

PageMarkup ==
    /\ value = EmptyForm
    /\ PageDisplay

\* validateForm has not been called
NotCalled == [done |-> FALSE, errors |-> <<>>]

Init ==
    /\ PageMarkup
    /\ timers = <<>>
    /\ consoleLog = <<>>
    /\ events = 0
    /\ arg = EmptyForm
    /\ ret = NotCalled

-----------------------------------------------------------------------------
(* What the user can type (or paste) into each field *)

Typed(f) ==
    CASE f = "name" -> {<<>>, <<"\t">>, <<" ", "a">>, <<"a", "b", " ">>}
      [] f = "email" -> {<<>>, <<"a", "@", "b">>, <<" ", "a", "@", "b", ".", "c">>}
      [] f = "subject" -> {<<>>, <<"a", "b">>, <<"a", "b", "c">>}
      [] f = "message" -> {<<>>, Rep("a", 9) \o <<"\n">>, Rep("a", 10)}

-----------------------------------------------------------------------------
(* Handlers *)

\* clearErrors that forgets the summary container
clearErrors_KeepSummary ==
    [summaryClass |-> summaryClass,
     successClass |-> successClass \cup {"hidden"},
     fieldClass   |-> [f \in Fields |-> (fieldClass[f] \ Invalid) \cup Normal],
     errHidden    |-> [f \in Fields |-> TRUE]]

\* clearErrors that forgets the success message
clearErrors_KeepSuccess ==
    [summaryClass |-> summaryClass \cup {"hidden"},
     successClass |-> successClass,
     fieldClass   |-> [f \in Fields |-> (fieldClass[f] \ Invalid) \cup Normal],
     errHidden    |-> [f \in Fields |-> TRUE]]

\* clearErrors: what it leaves in the summary, the success message and the fields
clearErrors ==
    [summaryClass |-> summaryClass \cup {"hidden"},
     successClass |-> successClass \cup {"hidden"},
     fieldClass   |-> [f \in Fields |-> (fieldClass[f] \ Invalid) \cup Normal],
     errHidden    |-> [f \in Fields |-> TRUE]]

\* showErrors(errors), run on the page as clearErrors left it (c)
showErrors(errors, c) ==
    [errorList    |-> [i \in 1..Len(errors) |-> errors[i].message],
     fieldClass   |-> [f \in Fields |->
                         IF f \in ErrFields(errors)
                           THEN (c.fieldClass[f] \cup Invalid) \ Normal
                           ELSE c.fieldClass[f]],
     errText      |-> [f \in Fields |->
                         IF f \in ErrFields(errors) THEN LastFor(errors, f) ELSE errText[f]],
     errHidden    |-> [f \in Fields |->
                         IF f \in ErrFields(errors) THEN FALSE ELSE c.errHidden[f]],
     summaryClass |-> (c.summaryClass \ {"hidden"}) \cup {"slide-in"},
     formClass    |-> formClass \cup {"shake"},
     timers       |-> Append(timers, [kind |-> "shake", data |-> EmptyForm])]

\* the submit listener of setupFormSubmission; when showLoading throws the
\* listener ends there and setTimeout (line 49) is not reached
Submit ==
    LET c == clearErrors
        data == FormRecord
        errors == validateForm(data)
        e == showErrors(errors, c)
        l == showLoading(button)
    IN  /\ successClass' = c.successClass
        /\ UNCHANGED <<value, consoleLog>>
        /\ IF Len(errors) > 0
             THEN /\ errorList' = e.errorList
                  /\ fieldClass' = e.fieldClass
                  /\ errText' = e.errText
                  /\ errHidden' = e.errHidden
                  /\ summaryClass' = e.summaryClass
                  /\ formClass' = e.formClass
                  /\ timers' = e.timers
                  /\ UNCHANGED button
             ELSE /\ fieldClass' = c.fieldClass
                  /\ errHidden' = c.errHidden
                  /\ summaryClass' = c.summaryClass
                  /\ button' = l.button
                  /\ timers' = IF l.threw
                                 THEN timers
                                 ELSE Append(timers, [kind |-> "submit", data |-> data])
                  /\ UNCHANGED <<errorList, errText, formClass>>

\* the blur listener: validateSingleField(this)
Blur(f) ==
    LET error == fieldError(f, trim(value[f]))
    IN  /\ IF error # NoError
             THEN /\ fieldClass' = [fieldClass EXCEPT ![f] = (@ \cup Invalid) \ Normal]
                  /\ errText' = [errText EXCEPT ![f] = error]
                  /\ errHidden' = [errHidden EXCEPT ![f] = FALSE]
             ELSE UNCHANGED <<fieldClass, errText, errHidden>>
        /\ UNCHANGED <<value, summaryClass, errorList, successClass, formClass,
                       button, timers, consoleLog>>

\* an input listener that restores the styling but leaves the inline message
Input_KeepInline(f, v) ==
    /\ value' = [value EXCEPT ![f] = v]
    /\ IF "border-red-500" \in fieldClass[f]
         THEN fieldClass' = [fieldClass EXCEPT ![f] = (@ \ Invalid) \cup Normal]
         ELSE UNCHANGED fieldClass
    /\ UNCHANGED <<errHidden, errText, summaryClass, errorList, successClass,
                   formClass, button, timers, consoleLog>>

\* a page whose input listener does nothing
Input_NoListener(f, v) ==
    /\ value' = [value EXCEPT ![f] = v]
    /\ UNCHANGED <<fieldClass, errHidden, errText, summaryClass, errorList,
                   successClass, formClass, button, timers, consoleLog>>

\* an input listener that validates the new text instead of only clearing
Input_Revalidate(f, v) ==
    LET error == fieldError(f, trim(v))
    IN  /\ value' = [value EXCEPT ![f] = v]
        /\ IF error # NoError
             THEN /\ fieldClass' = [fieldClass EXCEPT ![f] = (@ \cup Invalid) \ Normal]
                  /\ errHidden' = [errHidden EXCEPT ![f] = FALSE]
                  /\ errText' = [errText EXCEPT ![f] = error]
             ELSE /\ fieldClass' = [fieldClass EXCEPT ![f] = (@ \ Invalid) \cup Normal]
                  /\ errHidden' = [errHidden EXCEPT ![f] = TRUE]
                  /\ errText' = errText
        /\ UNCHANGED <<summaryClass, errorList, successClass, formClass,
                       button, timers, consoleLog>>

\* an input listener that clears every display, as the submit listener does
Input_ClearsAll(f, v) ==
    /\ value' = [value EXCEPT ![f] = v]
    /\ fieldClass' = clearErrors.fieldClass
    /\ errHidden' = clearErrors.errHidden
    /\ summaryClass' = clearErrors.summaryClass
    /\ successClass' = clearErrors.successClass
    /\ UNCHANGED <<errText, errorList, formClass, button, timers, consoleLog>>

\* the user changes the text of f to v; the input listener runs
Input(f, v) ==
    /\ value' = [value EXCEPT ![f] = v]
    /\ IF "border-red-500" \in fieldClass[f]
         THEN /\ fieldClass' = [fieldClass EXCEPT ![f] = (@ \ Invalid) \cup Normal]
              /\ errHidden' = [errHidden EXCEPT ![f] = TRUE]
         ELSE UNCHANGED <<fieldClass, errHidden>>
    /\ UNCHANGED <<errText, summaryClass, errorList, successClass, formClass,
                   button, timers, consoleLog>>

\* a callback that reads the form again instead of using the record it was given
SubmitCallback_ReadsForm(i) ==
    LET r == resetButton(button)
    IN  /\ i \in Pending("submit")
        /\ Due(i)
        /\ consoleLog' = Append(consoleLog, FormRecord)
        /\ value' = EmptyForm
        /\ successClass' = showSuccess(successClass)
        /\ button' = r.button
        /\ timers' = IF r.threw
                       THEN Without(timers, i)
                       ELSE Append(Without(timers, i),
                                   [kind |-> "hide", data |-> EmptyForm])
        /\ UNCHANGED <<fieldClass, errHidden, errText, summaryClass, errorList,
                       formClass>>

\* the callback scheduled by the submit listener: submitForm(data); when
\* resetButton throws the callback ends there and the setTimeout of the
\* auto-hide (line 308) is not reached
SubmitCallback(i) ==
    LET r == resetButton(button)
    IN  /\ i \in Pending("submit")
        /\ Due(i)
        /\ consoleLog' = Append(consoleLog, timers[i].data)
        /\ value' = EmptyForm
        /\ successClass' = showSuccess(successClass)
        /\ button' = r.button
        /\ timers' = IF r.threw
                       THEN Without(timers, i)
                       ELSE Append(Without(timers, i),
                                   [kind |-> "hide", data |-> EmptyForm])
        /\ UNCHANGED <<fieldClass, errHidden, errText, summaryClass, errorList,
                       formClass>>

\* the callback scheduled by submitForm: hide the success message
HideCallback(i) ==
    /\ i \in Pending("hide")
    /\ Due(i)
    /\ successClass' = hideSuccess(successClass)
    /\ timers' = Without(timers, i)
    /\ UNCHANGED <<value, fieldClass, errHidden, errText, summaryClass, errorList,
                   formClass, button, consoleLog>>

\* the callback scheduled by showErrors: stop shaking the form
ShakeCallback(i) ==
    /\ i \in Pending("shake")
    /\ Due(i)
    /\ formClass' = formClass \ {"shake"}
    /\ timers' = Without(timers, i)
    /\ UNCHANGED <<value, fieldClass, errHidden, errText, summaryClass, errorList,
                   successClass, button, consoleLog>>

-----------------------------------------------------------------------------
(* The page in the browser.  The listeners run on every event they are     *)
(* handed: nothing in the handler looks at the button, so a submit event   *)
(* is handled whenever one arrives.                                        *)
(*                                                                         *)
(* No auto-hide callback is among the timers of a reachable state: a       *)
(* submission callback exists only after a showLoading that did not throw, *)
(* whose createIcons replaced the <i>, so the resetButton of that callback *)
(* throws before submitForm reaches its setTimeout.  HideCallback is       *)
(* therefore not a step of the page.                                       *)

OnSubmit ==
    /\ Submit
    /\ events' = events + 1
    /\ UNCHANGED <<arg, ret>>

OnBlur ==
    /\ \E f \in Fields : Blur(f)
    /\ events' = events + 1
    /\ UNCHANGED <<arg, ret>>

OnInput ==
    /\ \E f \in Fields : \E v \in Typed(f) : Input(f, v)
    /\ events' = events + 1
    /\ UNCHANGED <<arg, ret>>

OnSubmitTimer ==
    /\ \E i \in 1..Len(timers) : SubmitCallback(i)
    /\ UNCHANGED <<events, arg, ret>>

OnShakeTimer ==
    /\ \E i \in 1..Len(timers) : ShakeCallback(i)
    /\ UNCHANGED <<events, arg, ret>>

Next ==
    \/ events < MaxEvents /\ OnSubmit
    \/ events < MaxEvents /\ OnBlur
    \/ events < MaxEvents /\ OnInput
    \/ OnSubmitTimer
    \/ OnShakeTimer

Spec == Init /\ [][Next]_vars

-----------------------------------------------------------------------------
(* The same page with the timers the event loop always gets to: a due      *)
(* callback is eventually run.                                             *)

SpecLive ==
    /\ Init
    /\ [][Next]_vars
    /\ WF_vars(OnSubmitTimer)
    /\ WF_vars(OnShakeTimer)

-----------------------------------------------------------------------------
(* The page in a browser that hands the form a submit event only while the *)
(* submit button is enabled (the UI-level guarantee the design relies on). *)

OnSubmitEnabled ==
    /\ ~button.disabled
    /\ OnSubmit

NextEnabled ==
    \/ events < MaxEvents /\ OnSubmitEnabled
    \/ events < MaxEvents /\ OnBlur
    \/ events < MaxEvents /\ OnInput
    \/ OnSubmitTimer
    \/ OnShakeTimer

SpecEnabled == Init /\ [][NextEnabled]_vars

-----------------------------------------------------------------------------
(* validateForm on its own: records drawn from sample strings around each  *)
(* rule's boundary, handed to validateForm once.                           *)

Samples(f) ==
    CASE f = "name" -> {<<>>, <<" ">>, <<"a">>, <<"a", "b">>, <<"a", "b", "c">>,
                        <<"a", "\t", "b">>}
      [] f = "email" -> {<<>>, <<"a", "b">>, <<"a", "@", "b">>, <<"a", ".", "b">>,
                         <<"a", "@", "b", ".", "c">>, <<"@", "b", ".", "c">>,
                         <<"a", "@", "b", ".">>, <<"a", "@", "@", "b", ".", "c">>,
                         <<"a", " ", "@", "b", ".", "c">>, <<"a", "@", ".", "c">>,
                         <<"a", "@", "b", "\t", ".", "c">>,
                         <<"a", "@", "b", ".", "U+00A0">>,
                         <<"a", "@", "b", ".", "c", ".", "d">>}
      [] f = "subject" -> {<<>>, <<"a", "b">>, <<"a", "b", "c">>, Rep("a", 4)}
      [] f = "message" -> {<<>>, Rep("a", 9), Rep("a", 10), Rep("a", 11)}

InitValidate ==
    /\ PageMarkup
    /\ timers = <<>>
    /\ consoleLog = <<>>
    /\ events = 0
    /\ arg \in [Fields -> UNION {Samples(f) : f \in Fields}]
    /\ \A f \in Fields : arg[f] \in Samples(f)
    /\ ret = NotCalled

Validate ==
    /\ ~ret.done
    /\ ret' = [done |-> TRUE, errors |-> validateForm(arg)]
    /\ UNCHANGED <<dom, events, arg>>

NextValidate == Validate

SpecValidate == InitValidate /\ [][NextValidate]_vars

-----------------------------------------------------------------------------
(* One field on its own: a page whose field holds a raw text, the blur     *)
(* listener run once on that field (validateSingleField) and validateForm  *)
(* run once on the record of the page's trimmed values.                    *)

Chars == {"a", "@", ".", " ", "\n"}

StringsUpTo(n) == UNION {[1..k -> Chars] : k \in 0..n}

\* texts longer than MaxLen, around the longest minimum and the email pattern
LongTexts ==
    {Rep("a", 9), Rep("a", 10), Rep("a", 11),
     <<" ">> \o Rep("a", 9) \o <<" ">>,
     <<" ">> \o Rep("a", 10) \o <<" ">>,
     <<"\t">> \o Rep("a", 9) \o <<"\r", "\n">>,
     Rep("a", 5) \o Rep("\n", 5),
     Rep("a", 4) \o <<" ">> \o Rep("a", 4),
     Rep("a", 4) \o <<" ">> \o Rep("a", 5),
     Rep("a", 4) \o <<"U+00A0">> \o Rep("a", 5),
     Rep(" ", 10),
     <<" ", "\t", "\n", "\r", "\f", "U+000B", "U+00A0", "U+2028", "U+3000", "U+FEFF">>,
     <<"a", "@", "b", ".", "c", "o">>,
     <<" ", "a", "@", "b", ".", "c", "o", " ">>,
     <<"U+FEFF", "a", "@", "b", ".", "c", "o", "U+00A0">>,
     <<"a", "@", "b", "@", "c", ".", "d">>,
     <<"a", " ", "b", "@", "c", ".", "d">>,
     <<"a", "\t", "b", "@", "c", ".", "d">>,
     <<"a", "@", "b", ".", "c", "U+2003", "d">>,
     <<"a", ".", "b", "@", "c", "d", "e">>}

\* a record whose four fields pass
FilledForm ==
    [f \in Fields |->
        CASE f = "name" -> <<"a", "b">>
          [] f = "email" -> <<"a", "@", "b", ".", "c">>
          [] f = "subject" -> <<"a", "b", "c">>
          [] f = "message" -> Rep("a", 10)]

\* neither validateSingleField nor validateForm has been called
NeitherCalled == [blurred |-> FALSE, error |-> NoError, done |-> FALSE, errors |-> <<>>]

InitField ==
    /\ arg \in [field : Fields,
                raw : StringsUpTo(MaxLen) \cup LongTexts,
                rest : {EmptyForm, FilledForm}]
    /\ value = [arg.rest EXCEPT ![arg.field] = arg.raw]
    /\ PageDisplay
    /\ timers = <<>>
    /\ consoleLog = <<>>
    /\ events = 0
    /\ ret = NeitherCalled

\* validateSingleField(field): the message it computes, and the marking it
\* leaves on the page
ValidateField ==
    /\ ~ret.blurred
    /\ Blur(arg.field)
    /\ ret' = [ret EXCEPT !.blurred = TRUE,
                          !.error = fieldError(arg.field, trim(value[arg.field]))]
    /\ UNCHANGED <<events, arg>>

\* validateForm on the record the submit listener builds from the page
ValidateRecord ==
    /\ ~ret.done
    /\ ret' = [ret EXCEPT !.done = TRUE, !.errors = validateForm(FormRecord)]
    /\ UNCHANGED <<dom, events, arg>>

NextField ==
    \/ ValidateField
    \/ ValidateRecord

SpecField == InitField /\ [][NextField]_vars

-----------------------------------------------------------------------------
(* Vocabulary of the properties *)

Marked(f) == "border-red-500" \in fieldClass[f]

InlineShown(f) == ~errHidden[f]

SuccessShown == "hidden" \notin successClass

SummaryShown == "hidden" \notin summaryClass

\* the rule of ContactFormConfig.validationRules for f rejects the value v
FailsRule(f, v) ==
    LET r == validationRules[f]
    IN  \/ r.required /\ v = <<>>
        \/ r.minLength > 0 /\ Len(v) < r.minLength
        \/ r.pattern /\ ~isValidEmail(v)

\* the fields of the form whose current trimmed value is rejected
Failing == {f \in Fields : FailsRule(f, trim(value[f]))}

\* the inline message both validation paths give for the current text of f
MessageFor(f) == LastFor(validateForm(FormRecord), f)

\* the messages of the failing fields, in declaration order
RECURSIVE MessagesFrom(_)
MessagesFrom(i) ==
    IF i > Len(FieldOrder) THEN <<>>
    ELSE (IF FieldOrder[i] \in Failing
            THEN <<fieldError(FieldOrder[i], trim(value[FieldOrder[i]]))>>
            ELSE <<>>) \o MessagesFrom(i + 1)

NumPending(kind) == Cardinality(Pending(kind))

\* the button is enabled and carries its idle label
Idle == ~button.disabled /\ button.text = "Launch Message"

\* the button is disabled and carries its loading label
Loading == button.disabled /\ button.text = "Sending..."

\* a step in which a submission callback ran (submitForm logged a record)
CallbackRan == Len(consoleLog') = Len(consoleLog) + 1

-----------------------------------------------------------------------------
(* C1: a valid submit while the button is Idle puts the button in Loading  *)
(* with one more submission callback pending; the callback, when it runs,  *)
(* takes the button from Loading back to Idle and makes the success        *)
(* message visible; the success message becomes visible only by a callback *)
(* that is thereby used up (once per submit); and a Loading button always  *)
(* gets back to Idle with the success message shown.                       *)
C1_ValidSubmitCycle ==
    /\ [][(Submit /\ Idle /\ Failing = {}) =>
            /\ Loading'
            /\ NumPending("submit")' = NumPending("submit") + 1
            /\ ~SuccessShown']_vars
    /\ [][CallbackRan =>
            /\ Loading
            /\ Idle'
            /\ ~SuccessShown
            /\ SuccessShown'
            /\ NumPending("submit")' = NumPending("submit") - 1]_vars
    /\ [][(~SuccessShown /\ SuccessShown') =>
            /\ CallbackRan
            /\ NumPending("submit")' = NumPending("submit") - 1]_vars
    /\ (Loading ~> (Idle /\ SuccessShown))

(* C2: a submit, with the button Idle, of a record with at least one       *)
(* failing field leaves the button Idle, no submission callback pending,   *)
(* the fields as they were, nothing logged and the success message hidden. *)
C2_InvalidSubmitNeverLoads ==
    [][(Submit /\ Idle /\ Failing # {}) =>
          /\ Idle'
          /\ button' = button
          /\ NumPending("submit")' = 0
          /\ value' = value
          /\ consoleLog' = consoleLog
          /\ ~SuccessShown']_vars

\* an invalid submit of a partly filled form has been handled
C2_Witness ==
    /\ SummaryShown
    /\ errorList # <<>>
    /\ value # EmptyForm
    /\ Idle
    /\ "shake" \in formClass

(* C3: the button is disabled exactly while a submission callback is       *)
(* pending, reads 'Sending...' exactly when disabled and 'Launch Message'  *)
(* otherwise.                                                              *)
C3_DisabledIffLoading ==
    /\ button.disabled <=> NumPending("submit") > 0
    /\ button.disabled <=> button.text = "Sending..."
    /\ ~button.disabled <=> button.text = "Launch Message"

(* C4: when a submission callback runs, the four fields are empty, the     *)
(* success message is visible, the button is Idle and one more auto-hide   *)
(* callback is pending.                                                    *)
C4_CallbackEffects ==
    [][CallbackRan =>
          /\ \A f \in Fields : value'[f] = <<>>
          /\ SuccessShown'
          /\ Idle'
          /\ NumPending("hide")' = NumPending("hide") + 1]_vars

(* C5: whenever the success message is visible it is later hidden.         *)
C5_SuccessEventuallyHidden == SuccessShown ~> ~SuccessShown

(* C6: right after an invalid submit the fields marked invalid, and the    *)
(* fields with a visible inline message, are exactly the fields that fail  *)
(* in the record submitted, each showing its message; the summary lists    *)
(* exactly those messages in field order and is visible; the success       *)
(* message is hidden.                                                      *)
C6_InvalidSubmitDisplay ==
    [][(Submit /\ Failing # {}) =>
          /\ \A f \in Fields :
                /\ Marked(f)' <=> f \in Failing
                /\ InlineShown(f)' <=> f \in Failing
                /\ f \in Failing => errText'[f] = fieldError(f, trim(value[f]))
          /\ errorList' = MessagesFrom(1)
          /\ SummaryShown'
          /\ ~SuccessShown']_vars

\* an invalid submit has been handled: some fields marked, some not
C6_Witness ==
    /\ SummaryShown
    /\ \E f \in Fields : Marked(f) /\ InlineShown(f)
    /\ \E f \in Fields : ~Marked(f) /\ ~InlineShown(f)
    /\ Len(errorList) = Cardinality({f \in Fields : Marked(f)})

(* C7: after a blur on a field whose trimmed value fails its rule the      *)
(* field is marked invalid and shows that message inline; after a blur on  *)
(* a field whose trimmed value passes, the field is not marked and its     *)
(* inline message is hidden.                                               *)
C7_BlurPresentsField ==
    [][\A f \in Fields : Blur(f) =>
          IF f \in Failing
            THEN /\ Marked(f)'
                 /\ InlineShown(f)'
                 /\ errText'[f] = MessageFor(f)
            ELSE /\ ~Marked(f)'
                 /\ ~InlineShown(f)']_vars

\* a blur has marked one field while another, holding a passing value, is clear
C7_Witness ==
    /\ errorList = <<>>
    /\ \E f \in Fields : Marked(f) /\ InlineShown(f) /\ errText[f] = MessageFor(f)
    /\ \E f \in Fields : f \notin Failing /\ ~Marked(f)

(* C8: an input event on a field marked invalid removes the marking and    *)
(* hides the inline message whatever the new text is, and changes neither  *)
(* the inline texts, the summary, the other fields nor the button; an      *)
(* input event on a field not marked changes no presentation state.        *)
C8_InputClearsOnly ==
    [][\A f \in Fields : \A v \in Typed(f) : Input(f, v) =>
          /\ Marked(f) => ~Marked(f)' /\ ~InlineShown(f)'
          /\ ~Marked(f) => fieldClass' = fieldClass /\ errHidden' = errHidden
          /\ \A g \in Fields \ {f} :
                /\ fieldClass'[g] = fieldClass[g]
                /\ errHidden'[g] = errHidden[g]
                /\ value'[g] = value[g]
          /\ errText' = errText
          /\ errorList' = errorList
          /\ summaryClass' = summaryClass
          /\ successClass' = successClass
          /\ formClass' = formClass
          /\ button' = button
          /\ timers' = timers]_vars

\* a field that was marked holds a new failing text, unmarked, old message kept
C8_Witness ==
    \E f \in Fields :
        /\ ~Marked(f)
        /\ ~InlineShown(f)
        /\ errText[f] # ""
        /\ f \in Failing
        /\ errText[f] # MessageFor(f)

(* C9: a submission callback is scheduled with the record of trimmed       *)
(* values of the submit that schedules it; the record the callback logs is *)
(* that record, whatever the fields hold when the callback runs, and the   *)
(* callback's reset discards those edits.                                  *)
C9_SnapshotSubmitted ==
    /\ [][NumPending("submit")' > NumPending("submit") =>
            /\ Failing = {}
            /\ timers' = Append(timers, [kind |-> "submit", data |-> FormRecord])]_vars
    /\ [][CallbackRan =>
            /\ \E i \in Pending("submit") :
                  /\ consoleLog' = Append(consoleLog, timers[i].data)
                  /\ timers' = Without(timers, i)
            /\ \A f \in Fields : \A k \in 1..Len(consoleLog') :
                  ~FailsRule(f, consoleLog'[k][f])
            /\ value' = EmptyForm]_vars

\* the form was edited while Loading: the pending record differs from the fields
C9_Witness ==
    /\ Loading
    /\ \E i \in Pending("submit") : timers[i].data # FormRecord
    /\ Failing # {}

(* C10: validateForm returns one error for each field that fails its rule  *)
(* and none for a field that passes, in the order name, email, subject,    *)
(* message: four errors in that order for the empty record, none for a     *)
(* record whose fields all pass.                                           *)
C10_ValidateErrorsInFieldOrder ==
    ret.done =>
        LET errs == ret.errors
            bad == {f \in Fields : FailsRule(f, arg[f])}
        IN  /\ \A i \in 1..Len(errs) : \A j \in 1..Len(errs) :
                  i < j => FieldIndex(errs[i].field) < FieldIndex(errs[j].field)
            /\ ErrFields(errs) = bad
            /\ Len(errs) = Cardinality(bad)
            /\ arg = EmptyForm =>
                  [i \in 1..Len(errs) |-> errs[i].field] = FieldOrder
            /\ bad = {} => errs = <<>>

\* validateForm has returned two errors for a record with two failing fields
C10_Witness ==
    /\ ret.done
    /\ Len(ret.errors) = 2
    /\ ret.errors[1].field = "name"
    /\ ret.errors[2].field = "email"
    /\ ~FailsRule("subject", arg["subject"])

-----------------------------------------------------------------------------
(* Vocabulary of the single-field properties *)

\* the errors validateForm returned for the field under test
FieldErrors == SelectSeq(ret.errors, LAMBDA e : e.field = arg.field)

Count(s, c) == Cardinality({k \in 1..Len(s) : s[k] = c})

\* the number of whitespace characters of s
Spaces(s) == Cardinality({k \in 1..Len(s) : s[k] \in WhiteSpace})

AllSpaces(s) == Spaces(s) = Len(s)

\* validateSingleField and validateForm have both been called
BothCalled == ret.blurred /\ ret.done

RequiredMessage(f) ==
    CASE f = "name" -> "Name is required"
      [] f = "email" -> "Email is required"
      [] f = "subject" -> "Subject is required"
      [] f = "message" -> "Message is required"

LengthFields == {"name", "subject", "message"}

MinLength(f) ==
    CASE f = "name" -> 2
      [] f = "subject" -> 3
      [] f = "message" -> 10

LengthMessage(f) ==
    CASE f = "name" -> "Name must be at least 2 characters"
      [] f = "subject" -> "Subject must be at least 3 characters"
      [] f = "message" -> "Message must be at least 10 characters"

FormatMessage == "Please enter a valid email address"

\* no '@', a whitespace character, a second '@', or no dot after the '@'
BadEmail(t) ==
    \/ Count(t, "@") = 0
    \/ Spaces(t) > 0
    \/ Count(t, "@") >= 2
    \/ /\ Count(t, "@") = 1
       /\ LET p == CHOOSE k \in 1..Len(t) : t[k] = "@"
          IN  \A j \in (p + 1)..Len(t) : t[j] # "."

\* local@domain.tld: one '@', no whitespace, and a dot with text on both
\* sides after it
GoodEmail(t) ==
    /\ Count(t, "@") = 1
    /\ Spaces(t) = 0
    /\ LET p == CHOOSE k \in 1..Len(t) : t[k] = "@"
       IN  /\ p > 1
           /\ \E j \in (p + 2)..(Len(t) - 1) : t[j] = "."

(* C11: a field whose text is empty or only whitespace gets exactly its    *)
(* 'required' message, at blur and at submit, and no field ever gets more  *)
(* than one error.                                                         *)
C11_RequiredTakesPrecedence ==
    BothCalled =>
        /\ Len(FieldErrors) <= 1
        /\ AllSpaces(arg.raw) =>
              /\ ret.error = RequiredMessage(arg.field)
              /\ FieldErrors = <<Err(arg.field, RequiredMessage(arg.field))>>

\* a message of ten different whitespace characters has been validated:
\* required, not a length error, and the blur has marked the field with it
C11_Witness ==
    /\ BothCalled
    /\ arg.field = "message"
    /\ Len(arg.raw) = 10
    /\ Spaces(arg.raw) = 10
    /\ "\t" \in {arg.raw[k] : k \in 1..Len(arg.raw)}
    /\ "U+00A0" \in {arg.raw[k] : k \in 1..Len(arg.raw)}
    /\ ret.error = "Message is required"
    /\ Marked("message")
    /\ errText["message"] = "Message is required"

(* C12: for name, subject and message a non-empty trimmed text one shorter *)
(* than the minimum gets the 'must be at least N characters' error at      *)
(* submit, and a trimmed text at least as long as the minimum gets none.   *)
C12_MinimumLengthBoundary ==
    (BothCalled /\ arg.field \in LengthFields) =>
        LET n == Len(trim(arg.raw))
        IN  /\ (n > 0 /\ n = MinLength(arg.field) - 1) =>
                  FieldErrors = <<Err(arg.field, LengthMessage(arg.field))>>
            /\ n >= MinLength(arg.field) => FieldErrors = <<>>

\* a message of nine characters after a tab and before a line break has got
\* the length error
C12_Witness ==
    /\ BothCalled
    /\ arg.field = "message"
    /\ arg.raw = <<"\t">> \o Rep("a", 9) \o <<"\r", "\n">>
    /\ Len(trim(arg.raw)) = 9
    /\ FieldErrors = <<Err("message", "Message must be at least 10 characters")>>

(* C13: a non-empty email without '@', without a dot after the '@', with a *)
(* whitespace character or with a second '@' gets the format error; an     *)
(* email of the form local@domain.tld with non-empty parts gets no error.  *)
C13_EmailFormat ==
    (BothCalled /\ arg.field = "email" /\ trim(arg.raw) # <<>>) =>
        /\ BadEmail(trim(arg.raw)) => FieldErrors = <<Err("email", FormatMessage)>>
        /\ GoodEmail(trim(arg.raw)) => FieldErrors = <<>>

\* a@b.co, typed between two spaces, has passed
C13_Witness ==
    /\ BothCalled
    /\ arg.field = "email"
    /\ arg.raw = <<" ", "a", "@", "b", ".", "c", "o", " ">>
    /\ FieldErrors = <<>>
    /\ ~Marked("email")

(* C14: for every field and raw text, the message the blur-time switch     *)
(* computes is the message validateForm gives that field: both none or     *)
(* both the same.                                                          *)
C14_BlurAgreesWithSubmit ==
    BothCalled =>
        ret.error = (IF FieldErrors = <<>> THEN NoError ELSE FieldErrors[1].message)

\* both paths have rejected an email with a tab inside it
C14_Witness ==
    /\ BothCalled
    /\ arg.field = "email"
    /\ arg.raw = <<"a", "\t", "b", "@", "c", ".", "d">>
    /\ ret.error = FormatMessage
    /\ Len(FieldErrors) = 1
    /\ errText["email"] = FormatMessage

(* C15: with submit events arriving only while the button is enabled, at   *)
(* most one submission callback is ever pending: a valid submit finds none *)
(* pending and leaves one, and the callback that runs leaves none, resets  *)
(* the form once and shows the success message once.                       *)
C15_OneSubmissionAtATime ==
    /\ [](NumPending("submit") <= 1)
    /\ [][(Submit /\ Failing = {}) =>
            /\ NumPending("submit") = 0
            /\ NumPending("submit")' = 1]_vars
    /\ [][CallbackRan =>
            /\ NumPending("submit") = 1
            /\ NumPending("submit")' = 0
            /\ Len(consoleLog') = Len(consoleLog) + 1
            /\ value' = EmptyForm
            /\ ~SuccessShown /\ SuccessShown']_vars

C17_SummaryExcludesSuccess == ~(SummaryShown /\ SuccessShown)

\* the success message shows after a summary of errors had been shown
C17_Witness ==
    /\ SuccessShown
    /\ ~SummaryShown
    /\ errorList # <<>>
    /\ "slide-in" \in summaryClass

(* C18: for each field the inline error message is visible exactly when    *)
(* the field carries the invalid styling.                                  *)
C18_InlineIffMarked == \A f \in Fields : InlineShown(f) <=> Marked(f)

\* one field is marked with its message, another had its marking cleared
C18_Witness ==
    /\ \E f \in Fields : Marked(f) /\ InlineShown(f)
    /\ \E g \in Fields : ~Marked(g) /\ ~InlineShown(g) /\ errText[g] # ""

(* C19: a field is marked invalid only while its current trimmed text      *)
(* fails the field's rule.                                                 *)
C19_MarkedOnlyWhileFailing == \A f \in Fields : Marked(f) => f \in Failing

\* a field is marked after the form reset of a submission callback
C19_Witness ==
    /\ consoleLog # <<>>
    /\ value = EmptyForm
    /\ \E f \in Fields : Marked(f) /\ f \in Failing

====
